---- MODULE Spec2Model ----
(***************************************************************************)
(* Risk metrics and treasury-rate selection of                             *)
(* backtest/zipline/finance/risk/risk.py.                                  *)
(*                                                                         *)
(* One behaviour of the model is one call of one function of the module:   *)
(* choose_treasury (stepped through statement by statement), sharpe_ratio, *)
(* sortino_ratio, information_ratio or downside_risk, or of                *)
(* __backwards_calc__ of datamanager/adjust.py.  Init draws the arguments  *)
(* of the call; start_date, which choose_treasury reads at line 226 only,  *)
(* is drawn there.                                                         *)
(*                                                                         *)
(* Numbers.  A Python value is a record [tag, n, d]:                       *)
(*   tag = "num"     the float n/d (kept as an exact fraction, d # 0)      *)
(*   tag = "nan"     numpy's not-a-number                                  *)
(*   tag = "none"    Python's None                                         *)
(*   tag = "date"    a timestamp, n ticks after the epoch of the model     *)
(*   tag = "unbound" a local name that has not been assigned yet           *)
(*   tag = "sqrt"    the float sign(n) * sqrt(|n| / d), d > 0              *)
(*   tag = "series"  a pandas Series or numpy array, its items in order    *)
(* downside_risk, whose result is compared bit for bit between two calls,  *)
(* computes in floats of MantissaBits significant bits, rounding every     *)
(* operation half to even as IEEE 754 does; its series hold returns in     *)
(* units of 1 / RoundUnit of the eighth decimal place.                     *)
(* A day has TicksPerDay ticks; tick 0 of a day is midnight.               *)
(***************************************************************************)
EXTENDS Integers, Sequences, FiniteSets, TLC

\* ---------------------------------------------------------------- bounds
\* curve dates are the midnights of days 1..MaxDay; end_date and start_date
\* range over days 0..MaxDay+1, so both sides of the curve are covered
MaxDay == 3

\* ticks (times of day) per calendar day
TicksPerDay == 2

\* the trading calendar answers None or an integer in -1..MaxTdd
MaxTdd == 2

\* scalar arguments of the ratios range over -MaxVal..MaxVal
MaxVal == 3

\* return series have 0..MaxLen items
MaxLen == 3

\* significant bits of a float in downside_risk (53 in a Python float)
MantissaBits == 3

\* a step of the eighth decimal place is RoundUnit units of a return
RoundUnit == 2

\* ---------------------------------------------------------------- values
Float(n, d) == [tag |-> "num", n |-> n, d |-> d]

Num(n) == Float(n, 1)

NaN == [tag |-> "nan", n |-> 0, d |-> 1]

None == [tag |-> "none", n |-> 0, d |-> 1]

Unbound == [tag |-> "unbound", n |-> 0, d |-> 1]

Date(t) == [tag |-> "date", n |-> t, d |-> 1]

Abs(x) == IF x < 0 THEN -x ELSE x

\* float subtraction, multiplication, division (IEEE: nan propagates)
FSub(a, b) ==
    IF a.tag = "nan" \/ b.tag = "nan" THEN NaN
    ELSE Float(a.n * b.d - b.n * a.d, a.d * b.d)

FMul(a, b) ==
    IF a.tag = "nan" \/ b.tag = "nan" THEN NaN
    ELSE Float(a.n * b.n, a.d * b.d)

FDiv(a, b) ==
    IF a.tag = "nan" \/ b.tag = "nan" THEN NaN
    ELSE Float(a.n * b.d, a.d * b.n)

\* the yields a curve entry can hold: two annual yields, a missing yield
\* as pandas stores it (nan), and None (an object column)
Yields == {Num(5), Num(7), NaN, None}

CurveDays == 1..MaxDay

Midnight(day) == day * TicksPerDay

Times == 0..((MaxDay + 2) * TicksPerDay - 1)

Curves ==
    UNION {[{Midnight(day) : day \in ds} -> Yields] : ds \in (SUBSET CurveDays) \ {{}}}

\* what trading.environment.trading_day_distance can answer
TddAnswers == {None} \cup {Num(n) : n \in (-1)..MaxTdd}

Scalars == {Num(n) : n \in (-MaxVal)..MaxVal}

Series(items) == [tag |-> "series", items |-> items]

\* the returns a series can hold
Returns == {-2, 0, 1, 3}

ReturnSeqs(len) == [1..len -> Returns]

\* ----------------------------------------------------------------- state
VARIABLES
    pc,                  \* position in the running call
    treasury_curves,     \* argument: date -> Yield
    start_date,          \* argument (read at line 226 only)
    end_date,            \* argument
    compound,            \* argument
    end_day, search_day, rate, i, pos, search_dist, message,   \* locals
    tdd,                 \* local of search_day_distance: the calendar's answer
    log,                 \* messages handed to log.warn
    algorithm_volatility, algorithm_return, treasury_return, mar,
    algorithm_returns,   \* argument of information_ratio and downside_risk
    benchmark_returns,   \* argument of information_ratio
    mean_returns,        \* argument of downside_risk
    normalization_factor,  \* argument of downside_risk
    downside_diff,       \* local of downside_risk
    multiplier,          \* argument of __backwards_calc__ (the caller's Series)
    sorted_multiplier,   \* the name multiplier once rebound at line 21
    mult,                \* local of __backwards_calc__
    result,              \* the value returned
    outcome              \* "running", "returned" or the exception raised

vars == <<pc, treasury_curves, start_date, end_date, compound, end_day,
          search_day, rate, i, pos, search_dist, message, tdd, log,
          algorithm_volatility, algorithm_return, treasury_return, mar,
          algorithm_returns, benchmark_returns, mean_returns,
          normalization_factor, downside_diff, multiplier, sorted_multiplier,
          mult, result, outcome>>

treasuryArgs == <<treasury_curves, end_date, compound>>

seriesVars ==
    <<algorithm_returns, benchmark_returns, mean_returns, normalization_factor,
      downside_diff, multiplier, sorted_multiplier, mult>>

metricArgs ==
    <<algorithm_volatility, algorithm_return, treasury_return, mar, seriesVars>>

EmptyCurve == [t \in {} |-> None]

NoMessage == [text |-> "", dt |-> Unbound, search_day |-> Unbound, term |-> Unbound]

\* ---------------------------------------------- pandas / Python helpers
\* the index of the curve: its dates, ascending (0-based positions p are
\* read as search_days[p + 1] here)
RECURSIVE SortedSeq(_)
SortedSeq(S) ==
    IF S = {} THEN <<>>
    ELSE LET m == CHOOSE x \in S : \A y \in S : x <= y
         IN  <<m>> \o SortedSeq(S \ {m})

search_days == SortedSeq(DOMAIN treasury_curves)

IndexAt(p) == search_days[p + 1]

\* Index.searchsorted(value), side = 'left': the first position whose date
\* is >= value, which is the number of dates < value
searchsorted(index, value) ==
    Cardinality({j \in 1..Len(index) : index[j] < value})

\* first position of the slice index[j - 1::-1] of an index of length n:
\* a negative start counts from the end; -1 stands for the empty slice
\* an off-by-one start: index[j - 2::-1]
SliceStartSkipsOne(j, n) ==
    IF j - 1 < 0 THEN j - 1 + n ELSE j - 2

SliceStart(j, n) ==
    LET start == IF j - 1 < 0 THEN j - 1 + n ELSE j - 1
    IN  IF start < 0 THEN -1
        ELSE IF start > n - 1 THEN n - 1
        ELSE start

\* end_date.replace(hour=0, minute=0, second=0, microsecond=0)
\* the time of day kept
normalizeKeepsTime(t) == t

normalize(t) == t - (t % TicksPerDay)

\* (end_date - start_date).days
TimedeltaDays(a, b) == (a - b) \div TicksPerDay

\* the names bound in the module namespace of risk.py
ModuleGlobals ==
    {"logbook", "math", "np", "trading", "zp_math", "log", "check_entry",
     "sharpe_ratio", "downside_risk", "sortino_ratio", "information_ratio",
     "alpha", "get_treasury_rate", "search_day_distance", "choose_treasury"}

DaysPerYear == 365

\* ------------------------------------------------------ choose_treasury
get_treasury_rate(curves, day) == curves[day]

\* `rate is not None`
IsNotNone(r) == r # None

\* search_day_distance(end_date, dt) given the calendar's answer:
\* the value returned, or the AssertionError of `assert tdd >= 0`
\* the assertion left out: a negative answer is clamped to 0
search_day_distance_clamped(answer) ==
    IF answer = None THEN [raises |-> FALSE, value |-> None]
    ELSE [raises |-> FALSE, value |-> IF answer.n >= 0 THEN answer ELSE Num(0)]

search_day_distance(answer) ==
    IF answer = None THEN [raises |-> FALSE, value |-> None]
    ELSE IF ~(answer.n >= 0) THEN [raises |-> TRUE, value |-> Unbound]
    ELSE [raises |-> FALSE, value |-> answer]

\* the condition of lines 215-216
\* an unknown distance taken as acceptable
StaleConditionKnownOnly(dist, day, index) ==
    /\ dist # None
    /\ dist.n > 1
    /\ index[1] <= day
    /\ day <= index[Len(index)]

\* the range test made strict
StaleConditionStrict(dist, day, index) ==
    /\ (dist = None \/ dist.n > 1)
    /\ index[1] < day
    /\ day < index[Len(index)]

StaleCondition(dist, day, index) ==
    /\ (dist = None \/ dist.n > 1)
    /\ index[1] <= day
    /\ day <= index[Len(index)]

\* lines 226-230
\* the window counted without its last day
CompoundNoPlusOne(r, td_days, comp) ==
    IF comp THEN FDiv(FMul(r, Num(td_days)), Num(DaysPerYear)) ELSE r

Compound(r, td_days, comp) ==
    IF comp THEN FDiv(FMul(r, Num(td_days + 1)), Num(DaysPerYear)) ELSE r

StaleTemplate ==
    [text |-> "No rate within 1 trading day of end date", dt |-> Unbound,
     search_day |-> Unbound, term |-> Unbound]

NoRateMessage(dt) ==
    [text |-> "No rate for end date", dt |-> dt,
     search_day |-> Unbound, term |-> Unbound]

\* no call on series in progress
SeriesIdle ==
    /\ algorithm_returns = Unbound
    /\ benchmark_returns = Unbound
    /\ mean_returns = Unbound
    /\ normalization_factor = Unbound
    /\ downside_diff = Unbound
    /\ multiplier = Unbound
    /\ sorted_multiplier = Unbound
    /\ mult = Unbound

InitTreasury ==
    /\ pc = "choose_treasury"
    /\ SeriesIdle
    /\ treasury_curves \in Curves
    /\ end_date \in Times
    /\ compound \in BOOLEAN
    /\ start_date = Unbound
    /\ end_day = Unbound
    /\ search_day = Unbound
    /\ rate = Unbound
    /\ i = Unbound
    /\ pos = Unbound
    /\ search_dist = Unbound
    /\ tdd = Unbound
    /\ message = NoMessage
    /\ log = <<>>
    /\ algorithm_volatility = Unbound
    /\ algorithm_return = Unbound
    /\ treasury_return = Unbound
    /\ mar = Unbound
    /\ result = Unbound
    /\ outcome = "running"

\* lines 190-197: normalize end_date and try it as a key of the curve
ExactMatch ==
    /\ pc = "choose_treasury"
    /\ LET day  == normalize(end_date)
           hit  == day \in DOMAIN treasury_curves
           r    == IF hit THEN get_treasury_rate(treasury_curves, day) ELSE rate
       IN  /\ end_day' = Date(day)
           /\ rate' = r
           /\ search_day' = IF hit /\ IsNotNone(r) THEN Date(day) ELSE None
    /\ pc' = "fallback"
    /\ UNCHANGED <<treasuryArgs, metricArgs, tdd, start_date, i, pos, search_dist,
                   message, log, result, outcome>>

\* line 199, search_day set: the fallback block is skipped
SkipFallback ==
    /\ pc = "fallback"
    /\ search_day # None
    /\ pc' = "return"
    /\ UNCHANGED <<treasuryArgs, metricArgs, tdd, start_date, end_day, search_day,
                   rate, i, pos, search_dist, message, log, result, outcome>>

\* lines 199-206: position the scan at search_days[i - 1::-1]
FallbackStart ==
    /\ pc = "fallback"
    /\ search_day = None
    /\ LET j == searchsorted(search_days, end_day.n)
       IN  /\ i' = Num(j)
           /\ pos' = Num(SliceStart(j, Len(search_days)))
    /\ pc' = "scan"
    /\ UNCHANGED <<treasuryArgs, metricArgs, tdd, start_date, end_day, search_day,
                   rate, search_dist, message, log, result, outcome>>

\* lines 206-209: prev_day has no rate, go on to the date before it
ScanSkip ==
    /\ pc = "scan"
    /\ pos.n >= 0
    /\ LET r == get_treasury_rate(treasury_curves, IndexAt(pos.n))
       IN  /\ ~IsNotNone(r)
           /\ rate' = r
    /\ pos' = Num(pos.n - 1)
    /\ UNCHANGED <<pc, treasuryArgs, metricArgs, tdd, start_date, end_day,
                   search_day, i, search_dist, message, log, result, outcome>>

\* lines 206-212: prev_day has a rate; ask the calendar for the distance
ScanHit ==
    /\ pc = "scan"
    /\ pos.n >= 0
    /\ LET r == get_treasury_rate(treasury_curves, IndexAt(pos.n))
       IN  /\ IsNotNone(r)
           /\ rate' = r
    /\ search_day' = Date(IndexAt(pos.n))
    /\ \E answer \in TddAnswers :
          LET got == search_day_distance(answer)
          IN  /\ tdd' = answer
              /\ IF got.raises
                 THEN /\ outcome' = "AssertionError"
                      /\ pc' = "done"
                      /\ UNCHANGED search_dist
                 ELSE /\ search_dist' = got.value
                      /\ pc' = "warn"
                      /\ UNCHANGED outcome
    /\ UNCHANGED <<treasuryArgs, metricArgs, start_date, end_day, i, pos,
                   message, log, result>>

\* line 206: the slice is exhausted
ScanExhausted ==
    /\ pc = "scan"
    /\ pos.n < 0
    /\ pc' = "warn"
    /\ UNCHANGED <<treasuryArgs, metricArgs, tdd, start_date, end_day, search_day,
                   rate, i, pos, search_dist, message, log, result, outcome>>

\* lines 214-219: decide on the stale-rate warning
WarnCheck ==
    /\ pc = "warn"
    /\ IF search_day # None /\ StaleCondition(search_dist, end_day.n, search_days)
       THEN /\ message' = StaleTemplate
            /\ pc' = "format"
       ELSE /\ pc' = "return"
            /\ UNCHANGED message
    /\ UNCHANGED <<treasuryArgs, metricArgs, tdd, start_date, end_day, search_day,
                   rate, i, pos, search_dist, log, result, outcome>>

\* lines 220-223: format the message (its term is the global name
\* treasury_duration) and hand it to log.warn
FormatWarn ==
    /\ pc = "format"
    /\ IF "treasury_duration" \in ModuleGlobals
       THEN /\ message' = [message EXCEPT !.dt = Date(end_date),
                                          !.search_day = search_day,
                                          !.term = Num(0)]
            /\ log' = Append(log, message')
            /\ pc' = "return"
            /\ UNCHANGED outcome
       ELSE /\ outcome' = "NameError"
            /\ pc' = "done"
            /\ UNCHANGED <<message, log>>
    /\ UNCHANGED <<treasuryArgs, metricArgs, tdd, start_date, end_day, search_day,
                   rate, i, pos, search_dist, result>>

\* lines 225-230: return the (compounded) rate
Return ==
    /\ pc = "return"
    /\ search_day # None
    /\ \E sd \in Times :
          /\ start_date' = Date(sd)
          /\ result' = Compound(rate, TimedeltaDays(end_date, sd), compound)
    /\ outcome' = "returned"
    /\ pc' = "done"
    /\ UNCHANGED <<treasuryArgs, metricArgs, tdd, end_day, search_day, rate, i,
                   pos, search_dist, message, log>>

\* lines 232-234: no rate found
RaiseNoRate ==
    /\ pc = "return"
    /\ search_day = None
    /\ message' = NoRateMessage(Date(end_date))
    /\ outcome' = "Exception"
    /\ pc' = "done"
    /\ UNCHANGED <<treasuryArgs, metricArgs, tdd, start_date, end_day, search_day,
                   rate, i, pos, search_dist, log, result>>

\* ------------------------------------------------------- risk metrics
\* zp_math.tolerant_equals: equal within a small fixed epsilon.  Scalars
\* are counted in units of half that epsilon.
Eps == 2

tolerant_equals(a, b) ==
    \/ /\ a.tag = "num"
       /\ b.tag = "num"
       /\ Abs(a.n * b.d - b.n * a.d) < Eps * Abs(a.d * b.d)
    \/ /\ a.tag = "sqrt"
       /\ b = Num(0)
       /\ Abs(a.n) < Eps * Eps * a.d

\* Python's a / b on floats: ZeroDivisionError on a zero divisor
PyDiv(a, b) ==
    IF b.tag = "num" /\ b.n = 0
    THEN [outcome |-> "ZeroDivisionError", value |-> Unbound]
    ELSE [outcome |-> "returned", value |-> FDiv(a, b)]

\* lines 78-93
sharpe_ratio(volatility, algo_return, treasury) ==
    IF tolerant_equals(volatility, Num(0))
    THEN [outcome |-> "returned", value |-> NaN]
    ELSE PyDiv(FSub(algo_return, treasury), volatility)

\* lines 106-123
\* the zero policy of sharpe_ratio applied to sortino_ratio
sortino_ratio_nan(algorithm_period_return, treasury_period_return, m) ==
    IF tolerant_equals(m, Num(0))
    THEN [outcome |-> "returned", value |-> NaN]
    ELSE PyDiv(FSub(algorithm_period_return, treasury_period_return), m)

sortino_ratio(algorithm_period_return, treasury_period_return, m) ==
    IF tolerant_equals(m, Num(0))
    THEN [outcome |-> "returned", value |-> Num(0)]
    ELSE PyDiv(FSub(algorithm_period_return, treasury_period_return), m)

TreasuryIdle ==
    /\ treasury_curves = EmptyCurve
    /\ end_date = 0
    /\ compound = FALSE
    /\ start_date = Unbound
    /\ end_day = Unbound
    /\ search_day = Unbound
    /\ rate = Unbound
    /\ i = Unbound
    /\ pos = Unbound
    /\ search_dist = Unbound
    /\ tdd = Unbound
    /\ message = NoMessage
    /\ log = <<>>

InitSharpe ==
    /\ pc = "sharpe_ratio"
    /\ TreasuryIdle
    /\ SeriesIdle
    /\ algorithm_volatility \in Scalars
    /\ algorithm_return \in Scalars
    /\ treasury_return \in Scalars
    /\ mar = Unbound
    /\ result = Unbound
    /\ outcome = "running"

InitSortino ==
    /\ pc = "sortino_ratio"
    /\ TreasuryIdle
    /\ SeriesIdle
    /\ algorithm_volatility = Unbound
    /\ algorithm_return \in Scalars
    /\ treasury_return \in Scalars
    /\ mar \in Scalars
    /\ result = Unbound
    /\ outcome = "running"

treasuryLocals ==
    <<start_date, end_day, search_day, rate, i, pos, search_dist, message,
      tdd, log>>

SharpeRatio ==
    /\ pc = "sharpe_ratio"
    /\ LET got == sharpe_ratio(algorithm_volatility, algorithm_return,
                               treasury_return)
       IN  /\ result' = got.value
           /\ outcome' = got.outcome
    /\ pc' = "done"
    /\ UNCHANGED <<treasuryArgs, metricArgs, treasuryLocals>>

\* algorithm_return and treasury_return hold the arguments
\* algorithm_period_return and treasury_period_return of the call
SortinoRatio ==
    /\ pc = "sortino_ratio"
    /\ LET got == sortino_ratio(algorithm_return, treasury_return, mar)
       IN  /\ result' = got.value
           /\ outcome' = got.outcome
    /\ pc' = "done"
    /\ UNCHANGED <<treasuryArgs, metricArgs, treasuryLocals>>

\* ------------------------------------------------- information_ratio
RECURSIVE SeqSum(_)
SeqSum(q) == IF q = <<>> THEN 0 ELSE q[1] + SeqSum(Tail(q))

\* a - b on two series paired by position
SeriesSub(a, b) == [j \in 1..Len(a) |-> a[j] - b[j]]

\* np.mean(q): nan on an empty series
Mean(q) == IF Len(q) = 0 THEN NaN ELSE Float(SeqSum(q), Len(q))

\* q.std(ddof): sqrt(sum(|x - mean|^2) / (N - ddof)), nan when N - ddof <= 0.
\* With mean = S / N the sum is sum((N x - S)^2) / N^2.
Std(q, ddof) ==
    LET N == Len(q)
        S == SeqSum(q)
    IN  IF N - ddof <= 0 THEN NaN
        ELSE [tag |-> "sqrt",
              n |-> SeqSum([j \in 1..N |-> (N * q[j] - S) * (N * q[j] - S)]),
              d |-> N * N * (N - ddof)]

Sign(x) == IF x < 0 THEN -1 ELSE IF x > 0 THEN 1 ELSE 0

\* a / s for a float a = n/d (d > 0) and s = sqrt(s.n / s.d)
DivBySqrt(a, s) ==
    IF s.n = 0
    THEN [outcome |-> "ZeroDivisionError", value |-> Unbound]
    ELSE [outcome |-> "returned",
          value |-> [tag |-> "sqrt", n |-> Sign(a.n) * a.n * a.n * s.d,
                     d |-> a.d * a.d * s.n]]

\* lines 126-150
\* the zero policy of sharpe_ratio applied to information_ratio
information_ratio_nan(algo, benchmark) ==
    LET relative_returns == SeriesSub(algo, benchmark)
        relative_deviation == Std(relative_returns, 1)
    IN  IF tolerant_equals(relative_deviation, Num(0))
           \/ relative_deviation.tag = "nan"
        THEN [outcome |-> "returned", value |-> NaN]
        ELSE DivBySqrt(Mean(relative_returns), relative_deviation)

information_ratio(algo, benchmark) ==
    LET relative_returns == SeriesSub(algo, benchmark)
        relative_deviation == Std(relative_returns, 1)
    IN  IF tolerant_equals(relative_deviation, Num(0))
           \/ relative_deviation.tag = "nan"
        THEN [outcome |-> "returned", value |-> Num(0)]
        ELSE DivBySqrt(Mean(relative_returns), relative_deviation)

ScalarsIdle ==
    /\ algorithm_volatility = Unbound
    /\ algorithm_return = Unbound
    /\ treasury_return = Unbound
    /\ mar = Unbound

InitInformation ==
    /\ pc = "information_ratio"
    /\ TreasuryIdle
    /\ ScalarsIdle
    /\ \E len \in 0..MaxLen :
          /\ algorithm_returns \in {Series(q) : q \in ReturnSeqs(len)}
          /\ benchmark_returns \in {Series(q) : q \in ReturnSeqs(len)}
    /\ mean_returns = Unbound
    /\ normalization_factor = Unbound
    /\ downside_diff = Unbound
    /\ multiplier = Unbound
    /\ sorted_multiplier = Unbound
    /\ mult = Unbound
    /\ result = Unbound
    /\ outcome = "running"

InformationRatio ==
    /\ pc = "information_ratio"
    /\ LET got == information_ratio(algorithm_returns.items,
                                    benchmark_returns.items)
       IN  /\ result' = got.value
           /\ outcome' = got.outcome
    /\ pc' = "done"
    /\ UNCHANGED <<treasuryArgs, metricArgs, treasuryLocals>>

\* ------------------------------------------------ floating-point numbers
Pow2(k) == 2 ^ k

\* n / d (d > 0) rounded to the nearest integer, ties to the even one
RoundHalfEven(n, d) ==
    LET q == n \div d
        r == n % d
    IN  IF 2 * r < d THEN q
        ELSE IF 2 * r > d THEN q + 1
        ELSE IF q % 2 = 0 THEN q ELSE q + 1

\* n / d > 0 scaled by powers of base (2 for a number, 4 under a square
\* root) into lo <= n / d < hi: the scaled fraction and the binary exponent
RECURSIVE Normalized(_, _, _, _, _, _)
Normalized(n, d, e, lo, hi, base) ==
    IF n >= hi * d THEN Normalized(n, base * d, e + 1, lo, hi, base)
    ELSE IF n < lo * d THEN Normalized(base * n, d, e - 1, lo, hi, base)
    ELSE [n |-> n, d |-> d, e |-> e]

\* n / d in lowest terms, d a power of two
RECURSIVE Reduce(_, _)
Reduce(n, d) ==
    IF d > 1 /\ n % 2 = 0 THEN Reduce(n \div 2, d \div 2) ELSE Float(n, d)

\* the float m * 2^e
Canon(m, e) == IF e >= 0 THEN Float(m * Pow2(e), 1) ELSE Reduce(m, Pow2(-e))

\* the float nearest to n / d (d > 0)
Fl(n, d) ==
    IF n = 0 THEN Num(0)
    ELSE LET s == Normalized(Abs(n), d, 0, Pow2(MantissaBits - 1),
                             Pow2(MantissaBits), 2)
         IN  Canon(Sign(n) * RoundHalfEven(s.n, s.d), s.e)

FlAdd(a, b) == Fl(a.n * b.d + b.n * a.d, a.d * b.d)

FlSub(a, b) == Fl(a.n * b.d - b.n * a.d, a.d * b.d)

FlMul(a, b) == Fl(a.n * b.n, a.d * b.d)

\* a / k for an integer k > 0
FlDivInt(a, k) == Fl(a.n, a.d * k)

\* the float nearest to sqrt(a), a >= 0
FlSqrt(a) ==
    IF a.n = 0 THEN Num(0)
    ELSE LET lo == Pow2(MantissaBits - 1)
             hi == Pow2(MantissaBits)
             s == Normalized(a.n, a.d, 0, lo * lo, hi * hi, 4)
             m == CHOOSE x \in lo..(hi - 1) :
                    x * x * s.d <= s.n /\ s.n < (x + 1) * (x + 1) * s.d
             mid == (2 * m + 1) * (2 * m + 1) * s.d
         IN  IF mid < 4 * s.n \/ (mid = 4 * s.n /\ m % 2 = 1)
             THEN Canon(m + 1, s.e)
             ELSE Canon(m, s.e)

\* numpy's add.reduce on a short array: the items added from left to right
RECURSIVE FlSumFrom(_, _)
FlSumFrom(acc, q) ==
    IF q = <<>> THEN acc ELSE FlSumFrom(FlAdd(acc, Head(q)), Tail(q))

FlSum(q) == FlSumFrom(Head(q), Tail(q))

\* np.std(q, ddof) of a series of at least ddof + 1 floats
FlStd(q, ddof) ==
    LET N == Len(q)
        arrmean == FlDivInt(FlSum(q), N)
        x == [j \in 1..N |-> FlSub(q[j], arrmean)]
        sq == [j \in 1..N |-> FlMul(x[j], x[j])]
    IN  FlSqrt(FlDivInt(FlSum(sq), N - ddof))

\* ------------------------------------------------------- downside_risk
\* the algorithm returns and the mean returns a series can hold
DownsideReturns == {-6, -3, 0}

MeanReturns == {1, 6}

\* normalization factors
Factors == {-1, 2}

\* x.round(8) of one return
Round8(v) == Fl(RoundHalfEven(v, RoundUnit) * RoundUnit, 1)

RECURSIVE SelectMask(_, _)
SelectMask(q, mask) ==
    IF q = <<>> THEN <<>>
    ELSE IF Head(mask) THEN <<Head(q)>> \o SelectMask(Tail(q), Tail(mask))
    ELSE SelectMask(Tail(q), Tail(mask))

\* lines 97-100: the local downside_diff
DownsideDiff(algo, mean) ==
    LET rets == [j \in 1..Len(algo) |-> Round8(algo[j])]
        mar_ == [j \in 1..Len(mean) |-> Round8(mean[j])]
        mask == [j \in 1..Len(algo) |-> rets[j].n * mar_[j].d < mar_[j].n * rets[j].d]
        diff == [j \in 1..Len(algo) |-> FlSub(rets[j], mar_[j])]
    IN  SelectMask(diff, mask)

\* math.sqrt(k) * s, as line 103 evaluates it
TimesSqrt(s, k) ==
    IF k < 0 THEN [outcome |-> "ValueError", value |-> Unbound]
    ELSE [outcome |-> "returned", value |-> FlMul(s, FlSqrt(Fl(k, 1)))]

\* lines 96-103; diff is the local downside_diff
\* the early return taken for an empty selection only
downside_risk_empty(algo, mean, k) ==
    LET diff == DownsideDiff(algo, mean)
    IN  IF Len(diff) <= 0
        THEN [outcome |-> "returned", value |-> Num(0), diff |-> diff]
        ELSE IF Len(diff) = 1
        THEN [outcome |-> "returned", value |-> NaN, diff |-> diff]
        ELSE [diff |-> diff] @@ TimesSqrt(FlStd(diff, 1), k)

downside_risk(algo, mean, k) ==
    LET diff == DownsideDiff(algo, mean)
    IN  IF Len(diff) <= 1
        THEN [outcome |-> "returned", value |-> Num(0), diff |-> diff]
        ELSE [diff |-> diff] @@ TimesSqrt(FlStd(diff, 1), k)

InitDownside ==
    /\ pc = "downside_risk"
    /\ TreasuryIdle
    /\ ScalarsIdle
    /\ \E len \in 0..MaxLen :
          /\ algorithm_returns \in {Series(q) : q \in [1..len -> DownsideReturns]}
          /\ mean_returns \in {Series(q) : q \in [1..len -> MeanReturns]}
    /\ normalization_factor \in {Num(k) : k \in Factors}
    /\ benchmark_returns = Unbound
    /\ downside_diff = Unbound
    /\ multiplier = Unbound
    /\ sorted_multiplier = Unbound
    /\ mult = Unbound
    /\ result = Unbound
    /\ outcome = "running"

\* the body of downside_risk on the arguments algo, mean
DownsideBody(algo, mean) ==
    /\ LET got == downside_risk(algo, mean, normalization_factor.n)
       IN  /\ downside_diff' = Series(got.diff)
           /\ result' = got.value
           /\ outcome' = got.outcome
    /\ pc' = "done"

DownsideRisk ==
    /\ pc = "downside_risk"
    /\ DownsideBody(algorithm_returns.items, mean_returns.items)
    /\ UNCHANGED <<treasuryArgs, treasuryLocals, algorithm_volatility,
                   algorithm_return, treasury_return, mar, algorithm_returns,
                   benchmark_returns, mean_returns, normalization_factor,
                   multiplier, sorted_multiplier, mult>>

Permuted(q, p) == [j \in 1..Len(q) |-> q[p[j]]]

\* the caller calls downside_risk again, both series reordered identically
DownsideRiskReordered ==
    /\ pc = "done"
    /\ normalization_factor # Unbound
    /\ \E p \in Permutations(1..Len(algorithm_returns.items)) :
          /\ algorithm_returns' = Series(Permuted(algorithm_returns.items, p))
          /\ mean_returns' = Series(Permuted(mean_returns.items, p))
          /\ DownsideBody(Permuted(algorithm_returns.items, p),
                          Permuted(mean_returns.items, p))
    /\ UNCHANGED <<treasuryArgs, treasuryLocals, algorithm_volatility,
                   algorithm_return, treasury_return, mar,
                   benchmark_returns, normalization_factor,
                   multiplier, sorted_multiplier, mult>>

\* ------------------------------- __backwards_calc__ (datamanager/adjust.py)
\* A date-indexed Series is the sequence of its [date, val] rows; on such an
\* index mult[i] with an integer i is positional.

\* the multipliers a row can hold
Multipliers == {2, 3, 5}

\* the Series on distinct days of CurveDays, in every row order
MultiplierSeries ==
    {Series(q) : q \in
        {r \in UNION {[1..len -> [date : CurveDays, val : Multipliers]] :
                        len \in 0..MaxDay} :
            \A j, k \in DOMAIN r : j # k => r[j].date # r[k].date}}

\* sort_index with the oldest date first
sort_index_ascending(rows) ==
    [k \in 1..Len(rows) |->
        CHOOSE r \in {rows[j] : j \in 1..Len(rows)} :
            Cardinality({j \in 1..Len(rows) : rows[j].date < r.date}) = k - 1]

\* line 21: sort_index(ascending=False), the newest date first
sort_index_descending(rows) ==
    [k \in 1..Len(rows) |->
        CHOOSE r \in {rows[j] : j \in 1..Len(rows)} :
            Cardinality({j \in 1..Len(rows) : rows[j].date > r.date}) = k - 1]

InitBackwards ==
    /\ pc = "__backwards_calc__"
    /\ TreasuryIdle
    /\ ScalarsIdle
    /\ multiplier \in MultiplierSeries
    /\ sorted_multiplier = Unbound
    /\ mult = Unbound
    /\ algorithm_returns = Unbound
    /\ benchmark_returns = Unbound
    /\ mean_returns = Unbound
    /\ normalization_factor = Unbound
    /\ downside_diff = Unbound
    /\ result = Unbound
    /\ outcome = "running"

backwardsFrame ==
    <<treasuryArgs, start_date, end_day, search_day, rate, pos, search_dist,
      message, tdd, log, algorithm_volatility, algorithm_return,
      treasury_return, mar, algorithm_returns, benchmark_returns,
      mean_returns, normalization_factor, downside_diff, multiplier>>

\* lines 19-23: the name multiplier is rebound to the sorted Series, the
\* caller's Series is not touched; mult is a copy
SortAndCopy ==
    /\ pc = "__backwards_calc__"
    /\ sorted_multiplier' = Series(sort_index_descending(multiplier.items))
    /\ mult' = sorted_multiplier'
    /\ pc' = "loop"
    /\ UNCHANGED <<backwardsFrame, i, result, outcome>>

\* the index the for statement of line 24 binds next
NextIndex == IF i = Unbound THEN 0 ELSE i.n + 1

\* lines 24-28: one pass through the loop (positions count from 0)
LoopPass ==
    /\ pc = "loop"
    /\ NextIndex < Len(sorted_multiplier.items)
    /\ LET j == NextIndex
           multi == sorted_multiplier.items[j + 1].val
       IN  /\ i' = Num(j)
           /\ mult' =
                 IF j = 0
                 THEN [mult EXCEPT !.items[1].val = multi]
                 ELSE [mult EXCEPT !.items[j + 1].val = multi * mult.items[j].val]
    /\ UNCHANGED <<backwardsFrame, sorted_multiplier, pc, result, outcome>>

\* line 30
ReturnMult ==
    /\ pc = "loop"
    /\ NextIndex >= Len(sorted_multiplier.items)
    /\ result' = mult
    /\ outcome' = "returned"
    /\ pc' = "done"
    /\ UNCHANGED <<backwardsFrame, i, sorted_multiplier, mult>>

\* ---------------------------------------------------------- specification
Init ==
    \/ InitTreasury
    \/ InitSharpe
    \/ InitSortino
    \/ InitInformation
    \/ InitDownside
    \/ InitBackwards

Next ==
    \/ ExactMatch
    \/ SkipFallback
    \/ FallbackStart
    \/ ScanSkip
    \/ ScanHit
    \/ ScanExhausted
    \/ WarnCheck
    \/ FormatWarn
    \/ Return
    \/ RaiseNoRate
    \/ SharpeRatio
    \/ SortinoRatio
    \/ InformationRatio
    \/ DownsideRisk
    \/ DownsideRiskReordered
    \/ SortAndCopy
    \/ LoopPass
    \/ ReturnMult

Spec == Init /\ [][Next]_vars

\* ================================================================ claims
Done == pc = "done"

\* the behaviour is a call of choose_treasury
TreasuryCall == DOMAIN treasury_curves # {}

FirstDate == search_days[1]

LastDate == search_days[Len(search_days)]

\* a curve entry with a yield that is not missing (neither None nor nan)
Usable(t) == treasury_curves[t].tag = "num"

\* midnight of the day end_date lies in
EndMidnight ==
    CHOOSE m \in {Midnight(day) : day \in 0..(MaxDay + 1)} :
        m <= end_date /\ end_date < m + TicksPerDay

\* the curve dates at or before the normalized end date with a usable yield
UsableAtOrBefore == {t \in DOMAIN treasury_curves : t <= EndMidnight /\ Usable(t)}

\* the curve dates whose yield is not None
NotNoneDates == {t \in DOMAIN treasury_curves : treasury_curves[t] # None}

Greatest(S) == CHOOSE x \in S : \A y \in S : y <= x

\* the whole calendar days of end_date - start_date
WholeDays ==
    CHOOSE k \in (-(MaxDay + 2))..(MaxDay + 2) :
        /\ k * TicksPerDay <= end_date - start_date.n
        /\ end_date - start_date.n < (k + 1) * TicksPerDay

\* the value choose_treasury is to return for the yield y
Scaled(y) ==
    IF ~compound THEN y
    ELSE IF y.tag = "nan" THEN NaN
    ELSE Float(y.n * (WholeDays + 1), y.d * DaysPerYear)

\* equality of two floats as numbers (nan equals nothing, itself included)
FEq(a, b) ==
    /\ a.tag = "num"
    /\ b.tag = "num"
    /\ a.n * b.d = b.n * a.d

SameValue(a, b) == (a.tag = "nan" /\ b.tag = "nan") \/ FEq(a, b)

PastTheCurve == TreasuryCall /\ EndMidnight > LastDate

\* the curve marks every missing yield with None, none with nan
NoNaN == \A t \in DOMAIN treasury_curves : treasury_curves[t].tag # "nan"

\* the calendar was not asked, or answered as its contract says
CalendarSound == tdd.tag = "num" => tdd.n >= 0

\* C1 (as stated): for every non-empty curve and every end_date (normalized)
\* strictly later than the curve's last date, choose_treasury ends in the
\* "No rate for end date" exception and returns no rate.  Stated for the
\* curves whose last entry has a yield and a calendar that keeps its
\* contract.
C1_RaisesPastTheCurve ==
    (Done /\ PastTheCurve /\ Usable(LastDate) /\ CalendarSound) =>
        (outcome = "Exception" /\ result = Unbound)

\* C1 (amended): for an end_date (normalized) strictly later than the
\* curve's last date, choose_treasury ends in the "No rate for end date"
\* exception, returning nothing, exactly when every yield of the curve is
\* None.  Otherwise it resolves to the latest date whose yield is not None,
\* makes no stale-rate warning, and returns that date's (compounded) yield,
\* unless the calendar answered a negative distance.
C1_FallsBackPastTheCurve ==
    (Done /\ PastTheCurve) =>
        /\ (outcome = "Exception") <=> (NotNoneDates = {})
        /\ NotNoneDates = {} => result = Unbound
        /\ NotNoneDates # {} =>
            /\ search_day = Date(Greatest(NotNoneDates))
            /\ message = NoMessage
            /\ log = <<>>
            /\ outcome \in {"returned", "AssertionError"}
            /\ outcome = "returned" =>
                  SameValue(result, Scaled(treasury_curves[search_day.n]))

C1_Witness ==
    /\ Done
    /\ PastTheCurve
    /\ outcome = "returned"
    /\ Len(search_days) >= 2
    /\ treasury_curves[LastDate] = None
    /\ result.tag = "num"

\* C2: when no curve date at or before the normalized end_date has a
\* non-missing yield, choose_treasury fails with the "No rate for end date"
\* exception naming end_date; it resolves to no later date and returns no
\* rate.  Stated for the curves that hold no nan (a missing yield is None)
\* and a calendar that keeps its contract.
C2_FailsWithoutPriorRate ==
    (Done /\ TreasuryCall /\ UsableAtOrBefore = {} /\ CalendarSound /\ NoNaN) =>
        /\ outcome = "Exception"
        /\ message = NoRateMessage(Date(end_date))
        /\ search_day = None
        /\ result = Unbound

\* C3: when the normalized end_date is no key of the curve, or its yield is
\* missing, and an earlier date has a non-missing yield, choose_treasury
\* resolves to the greatest date <= end_date with a non-missing yield, and
\* with compound = false returns exactly that date's yield.
C3_ResolvesNearestPrior ==
    ( /\ Done
      /\ TreasuryCall
      /\ ~(EndMidnight \in DOMAIN treasury_curves /\ Usable(EndMidnight))
      /\ \E t \in UsableAtOrBefore : t < EndMidnight ) =>
        /\ search_day = Date(Greatest(UsableAtOrBefore))
        /\ (outcome = "returned" /\ ~compound) =>
              result = treasury_curves[Greatest(UsableAtOrBefore)]

\* C4: whenever a fallback date was resolved more than one trading day from
\* end_date, strictly inside the curve's range, with end_date inside the
\* range, the warning is recorded and the call still returns the resolved
\* (compounded) rate.
C4_WarningDoesNotInterrupt ==
    ( /\ Done
      /\ TreasuryCall
      /\ search_dist.tag = "num"
      /\ search_dist.n > 1
      /\ Usable(search_day.n)
      /\ FirstDate < search_day.n
      /\ search_day.n < LastDate
      /\ FirstDate <= EndMidnight
      /\ EndMidnight <= LastDate ) =>
        /\ Len(log) = 1
        /\ outcome = "returned"
        /\ SameValue(result, Scaled(treasury_curves[search_day.n]))

\* C5: whenever the calendar answers a negative distance, the lookup ends
\* in the AssertionError: the value is not kept as a distance, no warning
\* decision is made from it and no rate is returned.
C5_NegativeDistanceAsserts ==
    (tdd.tag = "num" /\ tdd.n < 0) =>
        /\ pc = "done"
        /\ outcome = "AssertionError"
        /\ search_dist = Unbound
        /\ message = NoMessage
        /\ log = <<>>
        /\ result = Unbound

C5_Witness ==
    /\ tdd = Num(-1)
    /\ outcome = "AssertionError"
    /\ search_day.tag = "date"

StaleBranchTaken == message.text = StaleTemplate.text

EndInsideRange == FirstDate <= EndMidnight /\ EndMidnight <= LastDate

\* C6 (as stated): when the calendar answers "unknown" for the resolved
\* fallback date, choose_treasury makes no stale-rate warning, raises no
\* error and returns the resolved rate.  Stated for a resolved date before
\* end_date with a usable yield.
C6_UnknownDistanceAcceptable ==
    ( /\ Done
      /\ TreasuryCall
      /\ tdd = None
      /\ Usable(search_day.n)
      /\ search_day.n < EndMidnight ) =>
        /\ ~StaleBranchTaken
        /\ log = <<>>
        /\ outcome = "returned"
        /\ SameValue(result, Scaled(treasury_curves[search_day.n]))

\* C6 (amended): when the calendar answers "unknown", choose_treasury
\* raises no AssertionError and treats the distance like one greater than 1:
\* the stale-rate warning branch is taken exactly when the normalized
\* end_date lies within the curve's range (first <= end_day <= last);
\* outside that range there is no warning and the resolved (compounded)
\* rate is returned.
C6_UnknownDistanceWarnsInRange ==
    (Done /\ TreasuryCall /\ tdd = None) =>
        /\ search_dist = None
        /\ outcome # "AssertionError"
        /\ StaleBranchTaken <=> EndInsideRange
        /\ ~EndInsideRange =>
              /\ log = <<>>
              /\ outcome = "returned"
              /\ SameValue(result, Scaled(treasury_curves[search_day.n]))

C6_Witness ==
    /\ Done
    /\ TreasuryCall
    /\ tdd = None
    /\ StaleBranchTaken
    /\ Usable(search_day.n)
    /\ search_day.n < EndMidnight

\* the warning decision of lines 214-216 has been made
WarnDecided == pc \in {"format", "return", "done"}

\* C7 (as stated): on the fallback path with a known distance the
\* stale-rate warning is decided if and only if the resolved date lies
\* strictly between the curve's first and last date and is more than 1
\* trading day from end_date.  Stated for a resolved date before end_date
\* with a usable yield.
C7_WarnsIffResolvedStrictlyInside ==
    ( /\ TreasuryCall
      /\ WarnDecided
      /\ search_dist.tag = "num"
      /\ Usable(search_day.n)
      /\ search_day.n < EndMidnight ) =>
        (StaleBranchTaken <=>
            /\ FirstDate < search_day.n
            /\ search_day.n < LastDate
            /\ search_dist.n > 1)

\* C7 (amended): on the fallback path with a known distance the stale-rate
\* warning branch is taken if and only if the normalized end_date lies
\* within the curve's range, bounds included (first <= end_day <= last),
\* and the distance is more than 1 trading day; it is skipped whenever
\* end_date is outside that range or the distance is 0 or 1.
C7_WarnsIffEndInsideRange ==
    (TreasuryCall /\ WarnDecided /\ search_dist.tag = "num") =>
        (StaleBranchTaken <=> (EndInsideRange /\ search_dist.n > 1))

C7_Witness ==
    /\ TreasuryCall
    /\ WarnDecided
    /\ search_dist = Num(2)
    /\ StaleBranchTaken
    /\ search_day.n = FirstDate
    /\ EndMidnight = LastDate

ExactKey == EndMidnight \in DOMAIN treasury_curves /\ Usable(EndMidnight)

\* C8: whenever end_date normalized to midnight is a key of the curve with
\* a non-missing yield, choose_treasury resolves to that date and returns
\* its yield (scaled only by compounding); the fallback scan is not run,
\* the calendar is not consulted, and neither a warning nor an
\* AssertionError occurs, whatever other dates the curve holds.
C8_ExactMatchFirst ==
    (TreasuryCall /\ ExactKey /\ pc # "choose_treasury") =>
        /\ search_day = Date(EndMidnight)
        /\ i = Unbound
        /\ pos = Unbound
        /\ tdd = Unbound
        /\ search_dist = Unbound
        /\ message = NoMessage
        /\ log = <<>>
        /\ outcome \in {"running", "returned"}
        /\ Done =>
              /\ outcome = "returned"
              /\ SameValue(result, Scaled(treasury_curves[EndMidnight]))

C8_Witness ==
    /\ Done
    /\ TreasuryCall
    /\ ExactKey
    /\ end_date # EndMidnight
    /\ outcome = "returned"
    /\ \E t \in UsableAtOrBefore : t < EndMidnight
    /\ \E t \in DOMAIN treasury_curves : t > EndMidnight /\ Usable(t)

\* C9: for every successful lookup with start_date <= end_date: with
\* compound the result is resolved_yield * (days + 1) / 365, days being the
\* whole calendar days of end_date - start_date; without compound it is the
\* resolved yield unchanged, whatever start_date is.
C9_Compounding ==
    (Done /\ TreasuryCall /\ outcome = "returned" /\ start_date.n <= end_date) =>
        LET y == treasury_curves[search_day.n]
        IN  IF ~compound THEN result = y
            ELSE IF y.tag = "nan" THEN result = NaN
            ELSE FEq(result, Float(y.n * (WholeDays + 1), DaysPerYear))

C9_Witness ==
    /\ Done
    /\ TreasuryCall
    /\ outcome = "returned"
    /\ compound
    /\ start_date.n < end_date
    /\ WholeDays = 1
    /\ end_date - start_date.n > TicksPerDay
    /\ FEq(result, Float(10, DaysPerYear))

SharpeCall == algorithm_volatility # Unbound

SortinoCall == mar # Unbound

\* C10: sortino_ratio(r, t, mar) is exactly 0.0 whenever mar is
\* tolerance-equal to 0, sharpe_ratio(sigma, r, t) is not-a-number whenever
\* sigma is tolerance-equal to 0; neither raises, and otherwise each
\* returns (r - t) divided by mar, respectively sigma.
C10_ZeroPolicies ==
    /\ (Done /\ SortinoCall) =>
          /\ outcome = "returned"
          /\ IF tolerant_equals(mar, Num(0)) THEN result = Num(0)
             ELSE FEq(result, Float(algorithm_return.n - treasury_return.n, mar.n))
    /\ (Done /\ SharpeCall) =>
          /\ outcome = "returned"
          /\ IF tolerant_equals(algorithm_volatility, Num(0)) THEN result = NaN
             ELSE FEq(result, Float(algorithm_return.n - treasury_return.n,
                                    algorithm_volatility.n))

C10_Witness ==
    /\ Done
    /\ SortinoCall
    /\ mar = Num(1)
    /\ algorithm_return # treasury_return
    /\ result = Num(0)

InformationCall == benchmark_returns # Unbound

\* the items of x - y, their number, sum and sum of squares
RelativeReturns ==
    [j \in 1..Len(algorithm_returns.items) |->
        algorithm_returns.items[j] - benchmark_returns.items[j]]

RelN == Len(RelativeReturns)

RelSum == SeqSum(RelativeReturns)

RelSumSq == SeqSum([j \in 1..RelN |-> RelativeReturns[j] * RelativeReturns[j]])

\* the sample variance (divisor N - 1) of x - y is RelVarN / RelVarD
RelVarN == RelN * RelSumSq - RelSum * RelSum

RelVarD == RelN * (RelN - 1)

\* the sample deviation of x - y is not-a-number or tolerance-equal to 0
RelDegenerate == RelN <= 1 \/ RelVarN < Eps * Eps * RelVarD

ConstantShift ==
    \A j, k \in 1..RelN : RelativeReturns[j] = RelativeReturns[k]

\* C11: information_ratio(x, y) returns exactly 0.0, never not-a-number
\* and never an error, whenever the sample standard deviation (divisor
\* N - 1) of x - y is tolerance-equal to 0 or not-a-number, in particular
\* for y = x, for y = x + c and for series of length 1; otherwise it
\* returns mean(x - y) divided by that deviation, that is
\* sign(S) * sqrt(S^2 (N - 1) / (N (N Q - S^2))) for the sum S and the sum
\* of squares Q of x - y.
C11_InformationRatio ==
    (Done /\ InformationCall) =>
        /\ outcome = "returned"
        /\ ConstantShift => result = Num(0)
        /\ IF RelDegenerate THEN result = Num(0)
           ELSE /\ result.tag = "sqrt"
                /\ result.d > 0
                /\ result.n * RelN * RelVarN
                      = Sign(RelSum) * RelSum * RelSum * (RelN - 1) * result.d

C11_Witness ==
    /\ Done
    /\ InformationCall
    /\ RelN = 2
    /\ ~ConstantShift
    /\ RelDegenerate
    /\ result = Num(0)

DownsideCall == normalization_factor # Unbound

\* the multiples of a step of the eighth decimal place near the returns
Grid8 == {g * RoundUnit : g \in (-5)..5}

\* the multiple nearest to v, of two equally near ones the even one
Nearest8(v) ==
    CHOOSE w \in Grid8 :
        \A u \in Grid8 \ {w} :
            \/ Abs(v - w) < Abs(v - u)
            \/ Abs(v - w) = Abs(v - u) /\ (w \div RoundUnit) % 2 = 0

\* the indices whose rounded algorithm return is below the rounded mean
Qualifying ==
    {j \in 1..Len(algorithm_returns.items) :
        Nearest8(algorithm_returns.items[j]) < Nearest8(mean_returns.items[j])}

RawBelow ==
    {j \in 1..Len(algorithm_returns.items) :
        algorithm_returns.items[j] < mean_returns.items[j]}

\* how often x occurs among the selected differences
DiffCount(x) ==
    Cardinality({j \in 1..Len(downside_diff.items) : downside_diff.items[j] = x})

DiffValues == {downside_diff.items[j] : j \in 1..Len(downside_diff.items)}

FewQualifyGivesZero ==
    Cardinality(Qualifying) < 2 => result = Num(0) /\ outcome = "returned"

SameDifferences ==
    \A x \in DiffValues \cup DiffValues' : DiffCount(x)' = DiffCount(x)

SameResult == result' = result /\ outcome' = outcome

\* C12 as stated: downside_risk returns exactly 0.0 whenever fewer than 2
\* indices i have round8(algo[i]) < round8(mean[i]), and a call with both
\* series reordered identically selects the same paired differences and
\* returns the same result.
C12_OrderInvariant ==
    [][(Done' /\ DownsideCall') =>
          /\ FewQualifyGivesZero'
          /\ (Done /\ DownsideCall) => SameDifferences /\ SameResult]_vars

\* C12, amended: downside_risk returns exactly 0.0 whenever fewer than 2
\* indices i have round8(algo[i]) < round8(mean[i]); a call with both
\* series reordered identically selects the same paired differences (as a
\* multiset), and returns the same result when at most 2 indices qualify.
\* With 3 or more the sums are taken in series order and the result can
\* differ by floating-point rounding.
C12_OrderInvariantUpToRounding ==
    [][(Done' /\ DownsideCall') =>
          /\ FewQualifyGivesZero'
          /\ (Done /\ DownsideCall) =>
                /\ SameDifferences
                /\ Cardinality(Qualifying) <= 2 => SameResult]_vars

C12_Witness ==
    /\ Done
    /\ DownsideCall
    /\ Cardinality(RawBelow) = 3
    /\ Cardinality(Qualifying) = 2
    /\ outcome = "returned"
    /\ result # Num(0)

\* C13: choose_treasury never takes a date whose yield is missing
\* (not-a-number) as the resolved date, neither on the exact-match step nor
\* in the fallback scan, so a call that returns never returns a missing
\* yield.
C13_MissingYieldNeverResolved ==
    TreasuryCall =>
        /\ search_day.tag = "date" => treasury_curves[search_day.n].tag # "nan"
        /\ (Done /\ outcome = "returned") => result.tag # "nan"

BackwardsCall == multiplier # Unbound

\* the input rows and the dates they carry
InputRows == {multiplier.items[j] : j \in 1..Len(multiplier.items)}

InputDates == {r.date : r \in InputRows}

InputAt(d) == (CHOOSE r \in InputRows : r.date = d).val

RECURSIVE ProductOver(_)
ProductOver(ds) ==
    IF ds = {} THEN 1
    ELSE LET d == CHOOSE x \in ds : TRUE
         IN  InputAt(d) * ProductOver(ds \ {d})

NewestFirst(rows) ==
    \A k \in 1..(Len(rows) - 1) : rows[k].date > rows[k + 1].date

\* C14: __backwards_calc__(multiplier) returns a series ordered from the
\* newest date to the oldest in which the value at each date d is the
\* product of the input multipliers of all dates >= d (the newest date keeps
\* its own multiplier, each older date is its own multiplier times the
\* accumulated value of the next newer date), for every input order; the
\* input series itself is left unchanged.
C14_BackwardsProduct ==
    [][BackwardsCall' =>
          /\ BackwardsCall => multiplier' = multiplier
          /\ Done' =>
                (/\ outcome = "returned"
                 /\ result.tag = "series"
                 /\ Len(result.items) = Len(multiplier.items)
                 /\ {r.date : r \in {result.items[k] : k \in 1..Len(result.items)}}
                       = InputDates
                 /\ NewestFirst(result.items)
                 /\ \A k \in 1..Len(result.items) :
                       /\ result.items[k].val =
                             ProductOver({d \in InputDates :
                                            d >= result.items[k].date})
                       /\ result.items[k].val =
                             IF k = 1 THEN InputAt(result.items[k].date)
                             ELSE InputAt(result.items[k].date)
                                     * result.items[k - 1].val)']_vars

C14_Witness ==
    /\ Done
    /\ BackwardsCall
    /\ Len(multiplier.items) = 3
    /\ ~NewestFirst(multiplier.items)
    /\ result.items[3].val = 30
====
